---------------------------- MODULE Spec2Model ----------------------------
(***************************************************************************)
(* Streaming digest engines of crypto/md5 and crypto/sha256: the block     *)
(* buffer and accumulator (Write), padding and finalization (Sum,          *)
(* checkSum), reset, and state serialization (MarshalBinary,               *)
(* UnmarshalBinary).                                                       *)
(*                                                                         *)
(* Representation.  A byte is a number in 0..255 and a byte slice is a     *)
(* sequence of bytes (index 1 is Go's index 0).  TLC integers are 32 bits  *)
(* wide, so a uint32 is a pair <<hi, lo>> of 16-bit limbs and a uint64 is  *)
(* four 16-bit limbs, most significant first; arithmetic on them wraps     *)
(* modulo 2^32 and 2^64 as Go's does.                                      *)
(***************************************************************************)
EXTENDS Integers, Sequences, FiniteSets, TLC

\* ------------------------------------------------------------------------
\* Bounds of the model
\* ------------------------------------------------------------------------

\* Calls of Write, Reset and UnmarshalBinary in one behaviour.
MaxCalls == 2

\* The byte counts within this distance of 0 and of 2^64 are the ones a
\* restored checkpoint claims when the padding is examined.
MaxPadLen == 70

\* Callers that run Sum on one instance at the same time.
NumCallers == 2

\* ------------------------------------------------------------------------
\* Program constants
\* ------------------------------------------------------------------------

md5_Size == 16

md5_BlockSize == 64

sha256_Size == 32

sha256_Size224 == 28

sha256_BlockSize == 64

chunk == 64

\* 2^16: the base of the limbs of a uint32 and a uint64.
Limb == 256 * 256

\* ------------------------------------------------------------------------
\* Byte slices
\* ------------------------------------------------------------------------

Min(a, b) == IF a < b THEN a ELSE b

\* n zero bytes: a freshly allocated Go array or the zeroed tail of a make().
Zeros(n) == [i \in 1..n |-> 0]

\* Go's p[lo:hi] (0-based, hi exclusive).
Slice(p, lo, hi) == SubSeq(p, lo + 1, hi)

\* Go's p[lo:].
SliceFrom(p, lo) == SubSeq(p, lo + 1, Len(p))

\* Go's copy(dst[at:], src): the number of bytes copied and dst afterwards.
CopyAt(dst, at, src) ==
    [n   |-> Min(Len(dst) - at, Len(src)),
     dst |-> SubSeq(dst, 1, at)
             \o SubSeq(src, 1, Min(Len(dst) - at, Len(src)))
             \o SubSeq(dst, at + Min(Len(dst) - at, Len(src)) + 1, Len(dst))]

\* ------------------------------------------------------------------------
\* Fixed-width unsigned integers
\* ------------------------------------------------------------------------

\* uint64(n) for a small non-negative int n.
U64(n) == <<0, 0, n \div Limb, n % Limb>>

\* x + uint64(n), wrapping modulo 2^64.
U64Add(x, n) ==
    LET s4 == x[4] + (n % Limb)
        s3 == x[3] + (n \div Limb) + (s4 \div Limb)
        s2 == x[2] + (s3 \div Limb)
        s1 == x[1] + (s2 \div Limb)
    IN  <<s1 % Limb, s2 % Limb, s3 % Limb, s4 % Limb>>

\* x - y on uint64, wrapping modulo 2^64.
U64Sub(x, y) ==
    LET t4 == x[4] - y[4]
        b4 == IF t4 < 0 THEN 1 ELSE 0
        t3 == x[3] - y[3] - b4
        b3 == IF t3 < 0 THEN 1 ELSE 0
        t2 == x[2] - y[2] - b3
        b2 == IF t2 < 0 THEN 1 ELSE 0
        t1 == x[1] - y[1] - b2
    IN  <<t1 % Limb, t2 % Limb, t3 % Limb, t4 % Limb>>

\* x % 64 on uint64; the result fits an int.
U64Mod64(x) == x[4] % 64

\* Variant of U64Shl3 that does not shift: the length in bytes.
U64Shl3_bytes(x) == x

\* x << 3 on uint64: the three top bits are shifted out.
U64Shl3(x) ==
    <<((x[1] * 8) % Limb) + (x[2] \div 8192),
      ((x[2] * 8) % Limb) + (x[3] \div 8192),
      ((x[3] * 8) % Limb) + (x[4] \div 8192),
      (x[4] * 8) % Limb>>

\* ------------------------------------------------------------------------
\* encoding/binary
\* ------------------------------------------------------------------------

BigEndian_PutUint32(w) ==
    <<w[1] \div 256, w[1] % 256, w[2] \div 256, w[2] % 256>>

BigEndian_PutUint64(x) ==
    <<x[1] \div 256, x[1] % 256, x[2] \div 256, x[2] % 256,
      x[3] \div 256, x[3] % 256, x[4] \div 256, x[4] % 256>>

LittleEndian_PutUint32(w) ==
    <<w[2] % 256, w[2] \div 256, w[1] % 256, w[1] \div 256>>

LittleEndian_PutUint64(x) ==
    <<x[4] % 256, x[4] \div 256, x[3] % 256, x[3] \div 256,
      x[2] % 256, x[2] \div 256, x[1] % 256, x[1] \div 256>>

BigEndian_Uint32(b) == <<b[1] * 256 + b[2], b[3] * 256 + b[4]>>

BigEndian_Uint64(b) ==
    <<b[1] * 256 + b[2], b[3] * 256 + b[4],
      b[5] * 256 + b[6], b[7] * 256 + b[8]>>

\* ------------------------------------------------------------------------
\* The compression function (md5block.go, sha256block.go)
\* ------------------------------------------------------------------------

\* The stand-in transform.  Deterministic, and sensitive to the value and the
\* position of every byte of the block and to every word of the state vector.

\* The sum of bytes lo..hi of the block, byte i weighted by 2 * i + k.
RECURSIVE WSum(_, _, _, _)
WSum(blk, lo, hi, k) ==
    IF lo = hi THEN blk[lo] * (2 * lo + k)
    ELSE LET mid == (lo + hi) \div 2
         IN  WSum(blk, lo, mid, k) + WSum(blk, mid + 1, hi, k)

\* Word j of the state vector after a block with weighted sums f and g.
Mix(v, j, f, g) ==
    <<(v[j][2] * 3 + v[(j % Len(v)) + 1][1] + f * j + g) % Limb,
      (v[j][1] * 5 + v[j][2] + v[(j % Len(v)) + 1][2] * 7 + f + g * j + 1) % Limb>>

\* The state vector (of 4 or 8 words) after a block with weighted sums f and g.
MixAll(v, f, g) ==
    IF Len(v) = 4
    THEN <<Mix(v, 1, f, g), Mix(v, 2, f, g), Mix(v, 3, f, g), Mix(v, 4, f, g)>>
    ELSE <<Mix(v, 1, f, g), Mix(v, 2, f, g), Mix(v, 3, f, g), Mix(v, 4, f, g),
           Mix(v, 5, f, g), Mix(v, 6, f, g), Mix(v, 7, f, g), Mix(v, 8, f, g)>>

Compress(v, blk, k) ==
    MixAll(v, WSum(blk, 1, Len(blk), k) % Limb, WSum(blk, 1, Len(blk), k + 130) % Limb)

\* The state vector after compressing the blocks of p (a whole number of
\* blocks), one after the other.
RECURSIVE BlockFold(_, _, _, _)
BlockFold(v, p, size, k) ==
    IF Len(p) < size THEN v
    ELSE BlockFold(Compress(v, Slice(p, 0, size), k), SliceFrom(p, size), size, k)

\* n &^ mask for a mask of the form 2^k - 1: n with its low k bits cleared.
AndNot(n, mask) == n - (n % (mask + 1))

\* ------------------------------------------------------------------------
\* crypto/md5
\* ------------------------------------------------------------------------

\* 0x67452301
md5_init0 == <<26437, 8961>>

\* 0xEFCDAB89
md5_init1 == <<61389, 43913>>

\* 0x98BADCFE
md5_init2 == <<39098, 56574>>

\* 0x10325476
md5_init3 == <<4146, 21622>>

\* "md5\x01"
md5_magic == <<109, 100, 53, 1>>

md5_marshaledSize == Len(md5_magic) + 4 * 4 + md5_BlockSize + 8

md5_errIdentifier == "crypto/md5: invalid hash state identifier"

md5_errSize == "crypto/md5: invalid hash state size"

\* new(digest): every field zero.
md5_zero == [s |-> <<<<0, 0>>, <<0, 0>>, <<0, 0>>, <<0, 0>>>>,
             x |-> Zeros(md5_BlockSize), nx |-> 0, len |-> U64(0)]

\* Variant of md5_Reset that keeps the byte count.
md5_Reset_keepLen(d) ==
    [d EXCEPT !.s = <<md5_init0, md5_init1, md5_init2, md5_init3>>,
              !.nx = 0]

md5_Reset(d) ==
    [d EXCEPT !.s = <<md5_init0, md5_init1, md5_init2, md5_init3>>,
              !.nx = 0,
              !.len = U64(0)]

md5_New == md5_Reset(md5_zero)

md5_appendUint64(b, x) == b \o BigEndian_PutUint64(x)

md5_appendUint32(b, x) == b \o BigEndian_PutUint32(x)

md5_consumeUint64(b) == [b |-> SliceFrom(b, 8), x |-> BigEndian_Uint64(Slice(b, 0, 8))]

\* Variant of md5_consumeUint32 that reads the four bytes least significant
\* first.
md5_consumeUint32_littleEndian(b) ==
    [b |-> SliceFrom(b, 4), x |-> BigEndian_Uint32(<<b[4], b[3], b[2], b[1]>>)]

md5_consumeUint32(b) == [b |-> SliceFrom(b, 4), x |-> BigEndian_Uint32(Slice(b, 0, 4))]

\* Variant of md5_MarshalBinary that appends the whole buffer as it is.
md5_MarshalBinary_wholeBuffer(d) ==
    [b   |-> md5_appendUint64(
                 md5_appendUint32(md5_appendUint32(md5_appendUint32(md5_appendUint32(
                     md5_magic, d.s[1]), d.s[2]), d.s[3]), d.s[4]) \o d.x,
                 d.len),
     err |-> "nil"]

md5_MarshalBinary(d) ==
    LET b0 == md5_magic
        b1 == md5_appendUint32(b0, d.s[1])
        b2 == md5_appendUint32(b1, d.s[2])
        b3 == md5_appendUint32(b2, d.s[3])
        b4 == md5_appendUint32(b3, d.s[4])
        b5 == b4 \o Slice(d.x, 0, d.nx)
        b6 == b5 \o Zeros(Len(d.x) - d.nx)
        b7 == md5_appendUint64(b6, d.len)
    IN  [b |-> b7, err |-> "nil"]

\* Variant of md5_UnmarshalBinary that resets the instance before it checks
\* the size of the blob.
md5_UnmarshalBinary_resetFirst(d, b) ==
    IF Len(b) < Len(md5_magic) \/ Slice(b, 0, Len(md5_magic)) # md5_magic
    THEN [d |-> d, err |-> md5_errIdentifier]
    ELSE IF Len(b) # md5_marshaledSize
    THEN [d |-> md5_Reset(d), err |-> md5_errSize]
    ELSE [d |-> [s   |-> <<BigEndian_Uint32(Slice(b, 4, 8)), BigEndian_Uint32(Slice(b, 8, 12)),
                           BigEndian_Uint32(Slice(b, 12, 16)), BigEndian_Uint32(Slice(b, 16, 20))>>,
                 x   |-> Slice(b, 20, 84),
                 nx  |-> U64Mod64(BigEndian_Uint64(Slice(b, 84, 92))),
                 len |-> BigEndian_Uint64(Slice(b, 84, 92))],
          err |-> "nil"]

\* Variant of md5_UnmarshalBinary that checks the length of the tag but not
\* its bytes.
md5_UnmarshalBinary_anyTag(d, b) ==
    IF Len(b) < Len(md5_magic)
    THEN [d |-> d, err |-> md5_errIdentifier]
    ELSE IF Len(b) # md5_marshaledSize
    THEN [d |-> d, err |-> md5_errSize]
    ELSE [d |-> [s   |-> <<BigEndian_Uint32(Slice(b, 4, 8)), BigEndian_Uint32(Slice(b, 8, 12)),
                           BigEndian_Uint32(Slice(b, 12, 16)), BigEndian_Uint32(Slice(b, 16, 20))>>,
                 x   |-> Slice(b, 20, 84),
                 nx  |-> U64Mod64(BigEndian_Uint64(Slice(b, 84, 92))),
                 len |-> BigEndian_Uint64(Slice(b, 84, 92))],
          err |-> "nil"]

md5_UnmarshalBinary(d, b) ==
    IF Len(b) < Len(md5_magic) \/ Slice(b, 0, Len(md5_magic)) # md5_magic
    THEN [d |-> d, err |-> md5_errIdentifier]
    ELSE IF Len(b) # md5_marshaledSize
    THEN [d |-> d, err |-> md5_errSize]
    ELSE LET b0 == SliceFrom(b, Len(md5_magic))
             c0 == md5_consumeUint32(b0)
             c1 == md5_consumeUint32(c0.b)
             c2 == md5_consumeUint32(c1.b)
             c3 == md5_consumeUint32(c2.b)
             cx == CopyAt(d.x, 0, c3.b)
             c4 == md5_consumeUint64(SliceFrom(c3.b, cx.n))
         IN  [d |-> [s   |-> <<c0.x, c1.x, c2.x, c3.x>>,
                     x   |-> cx.dst,
                     nx  |-> U64Mod64(c4.x),
                     len |-> c4.x],
              err |-> "nil"]

\* block / blockGeneric: d.s after the blocks of p.
md5_block(d, p) == [d EXCEPT !.s = BlockFold(d.s, p, md5_BlockSize, 1)]

\* Variant of md5_Write_fill that leaves d.nx at the block size after the
\* buffer was compressed.
md5_Write_fill_keepNx(d, p, c) ==
    IF d.nx + c.n = md5_BlockSize
    THEN [d      |-> md5_block([d EXCEPT !.x = c.dst, !.nx = d.nx + c.n], c.dst),
          p      |-> SliceFrom(p, c.n),
          hashed |-> c.dst]
    ELSE [d      |-> [d EXCEPT !.x = c.dst, !.nx = d.nx + c.n],
          p      |-> SliceFrom(p, c.n),
          hashed |-> <<>>]

\* Write, "if d.nx > 0": c is what copy(d.x[d.nx:], p) did.  The digest and the
\* rest of p afterwards, and the bytes handed to block.
md5_Write_fill(d, p, c) ==
    IF d.nx + c.n = md5_BlockSize
    THEN [d      |-> [md5_block([d EXCEPT !.x = c.dst, !.nx = d.nx + c.n], c.dst)
                        EXCEPT !.nx = 0],
          p      |-> SliceFrom(p, c.n),
          hashed |-> c.dst]
    ELSE [d      |-> [d EXCEPT !.x = c.dst, !.nx = d.nx + c.n],
          p      |-> SliceFrom(p, c.n),
          hashed |-> <<>>]

\* Variant of md5_Write_blocks that hands only the first block of p to block.
md5_Write_blocks_first(st, n) ==
    [d      |-> md5_block(st.d, Slice(st.p, 0, md5_BlockSize)),
     p      |-> SliceFrom(st.p, n),
     hashed |-> st.hashed \o Slice(st.p, 0, md5_BlockSize)]

\* Write, "if len(p) >= md5_BlockSize", with n the length of the whole blocks of p.
md5_Write_blocks(st, n) ==
    [d      |-> md5_block(st.d, Slice(st.p, 0, n)),
     p      |-> SliceFrom(st.p, n),
     hashed |-> st.hashed \o Slice(st.p, 0, n)]

\* Write, "if len(p) > 0": c is what copy(d.x[:], p) did.
md5_Write_tail(st, c) == [st EXCEPT !.d.x = c.dst, !.d.nx = c.n]

\* Variant of md5_Write_3 that copies the rest of p into the buffer even when
\* it is empty.
md5_Write_3_always(st) == md5_Write_tail(st, CopyAt(st.d.x, 0, st.p))

md5_Write_3(st) ==
    IF Len(st.p) > 0 THEN md5_Write_tail(st, CopyAt(st.d.x, 0, st.p)) ELSE st

md5_Write_2(st) ==
    md5_Write_3(IF Len(st.p) >= md5_BlockSize
                  THEN md5_Write_blocks(st, AndNot(Len(st.p), md5_BlockSize - 1))
                  ELSE st)

\* Variant of md5_Write_1 that never completes the buffered block first.
md5_Write_1_noFill(d, p) == md5_Write_2([d |-> d, p |-> p, hashed |-> <<>>])

md5_Write_1(d, p) ==
    md5_Write_2(IF d.nx > 0
                  THEN md5_Write_fill(d, p, CopyAt(d.x, d.nx, p))
                  ELSE [d |-> d, p |-> p, hashed |-> <<>>])

\* What Write leaves and returns, st being the digest and the bytes handed to
\* block when it returns.
md5_Write_ret(st, nn) == [d |-> st.d, nn |-> nn, err |-> "nil", hashed |-> st.hashed]

\* Variant of md5_Write that leaves d.len alone.
md5_Write_keepLen(d, p) == md5_Write_ret(md5_Write_1(d, p), Len(p))

\* The digest afterwards, the count returned, the error returned, and the
\* bytes handed to block, in order.
md5_Write(d, p) ==
    md5_Write_ret(md5_Write_1([d EXCEPT !.len = U64Add(d.len, Len(p))], p), Len(p))

\* Variant of md5_pad whose subtraction stops at 0 instead of wrapping.
md5_pad_noWrap(len) ==
    IF len[1] = 0 /\ len[2] = 0 /\ len[3] = 0 /\ len[4] <= 55 THEN 55 - len[4] ELSE 0

\* checkSum, "pad := (55 - d.len) % 64" on uint64.
md5_pad(len) == U64Mod64(U64Sub(U64(55), len))

\* Variant of md5_padding_pad with a length field of four bytes.
md5_padding_pad_field4(len, pad) ==
    Slice(CopyAt(<<128>> \o Zeros(63 + 8), 1 + pad, LittleEndian_PutUint32(SubSeq(U64Shl3(len), 3, 4))).dst,
          0, 1 + pad + 4)

\* checkSum: the bytes it hands to Write, pad being (55 - d.len) % 64.
md5_padding_pad(len, pad) ==
    Slice(CopyAt(<<128>> \o Zeros(63 + 8), 1 + pad, LittleEndian_PutUint64(U64Shl3(len))).dst,
          0, 1 + pad + 8)

\* Variant of md5_padding that pads up to 57 modulo 64.
md5_padding_from56(len) == <<md5_padding_pad(len, U64Mod64(U64Sub(U64(56), len)))>>

\* The slices checkSum hands to Write, in order.
md5_padding(len) == <<md5_padding_pad(len, md5_pad(len))>>

\* checkSum after its Write returned w.
md5_checkSum_ret(w) ==
    [d      |-> w.d,
     panic  |-> w.d.nx # 0,
     digest |-> LittleEndian_PutUint32(w.d.s[1]) \o LittleEndian_PutUint32(w.d.s[2])
                \o LittleEndian_PutUint32(w.d.s[3]) \o LittleEndian_PutUint32(w.d.s[4]),
     hashed |-> w.hashed]

\* The receiver afterwards, whether the d.nx != 0 panic fired, the checksum,
\* and the bytes handed to block.
md5_checkSum(d) == md5_checkSum_ret(md5_Write(d, md5_padding(d.len)[1]))

\* Variant of md5_Sum_ret where checkSum ran on the receiver itself.
md5_Sum_ret_inPlace(d, in, hash) ==
    [d |-> hash.d, d0 |-> hash.d, panic |-> hash.panic, out |-> in \o hash.digest,
     hashed |-> hash.hashed]

\* Sum once checkSum on the copy d0 returned hash.
md5_Sum_ret(d, in, hash) ==
    [d |-> d, d0 |-> hash.d, panic |-> hash.panic, out |-> in \o hash.digest,
     hashed |-> hash.hashed]

\* The receiver afterwards, the private copy afterwards, and the result.
md5_Sum(d, in) == md5_Sum_ret(d, in, md5_checkSum(d))

\* ------------------------------------------------------------------------
\* crypto/sha256
\* ------------------------------------------------------------------------

\* 0x6A09E667
sha256_init0 == <<27145, 58983>>

\* 0xBB67AE85
sha256_init1 == <<47975, 44677>>

\* 0x3C6EF372
sha256_init2 == <<15470, 62322>>

\* 0xA54FF53A
sha256_init3 == <<42319, 62778>>

\* 0x510E527F
sha256_init4 == <<20750, 21119>>

\* 0x9B05688C
sha256_init5 == <<39685, 26764>>

\* 0x1F83D9AB
sha256_init6 == <<8067, 55723>>

\* 0x5BE0CD19
sha256_init7 == <<23520, 52505>>

\* 0xC1059ED8
sha256_init0_224 == <<49413, 40664>>

\* 0x367CD507
sha256_init1_224 == <<13948, 54535>>

\* 0x3070DD17
sha256_init2_224 == <<12400, 56599>>

\* 0xF70E5939
sha256_init3_224 == <<63246, 22841>>

\* 0xFFC00B31
sha256_init4_224 == <<65472, 2865>>

\* 0x68581511
sha256_init5_224 == <<26712, 5393>>

\* 0x64F98FA7
sha256_init6_224 == <<25849, 36775>>

\* 0xBEFA4FA4
sha256_init7_224 == <<48890, 20388>>

\* "sha\x02"
sha256_magic224 == <<115, 104, 97, 2>>

\* "sha\x03"
sha256_magic256 == <<115, 104, 97, 3>>

sha256_marshaledSize == Len(sha256_magic256) + 8 * 4 + chunk + 8

sha256_errIdentifier == "crypto/sha256: invalid hash state identifier"

sha256_errSize == "crypto/sha256: invalid hash state size"

\* new(digest): every field zero.
sha256_zero == [h |-> [i \in 1..8 |-> <<0, 0>>],
                x |-> Zeros(chunk), nx |-> 0, len |-> U64(0), is224 |-> FALSE]

sha256_appendUint64(b, x) == b \o BigEndian_PutUint64(x)

sha256_appendUint32(b, x) == b \o BigEndian_PutUint32(x)

sha256_consumeUint64(b) ==
    [b |-> SliceFrom(b, 8),
     x |-> <<b[1] * 256 + b[2], b[3] * 256 + b[4], b[5] * 256 + b[6], b[7] * 256 + b[8]>>]

sha256_consumeUint32(b) ==
    [b |-> SliceFrom(b, 4), x |-> <<b[1] * 256 + b[2], b[3] * 256 + b[4]>>]

\* Variant of sha256_MarshalBinary that appends the whole buffer as it is.
sha256_MarshalBinary_wholeBuffer(d) ==
    [b   |-> sha256_appendUint64(
                 sha256_appendUint32(sha256_appendUint32(sha256_appendUint32(sha256_appendUint32(
                 sha256_appendUint32(sha256_appendUint32(sha256_appendUint32(sha256_appendUint32(
                     IF d.is224 THEN sha256_magic224 ELSE sha256_magic256,
                     d.h[1]), d.h[2]), d.h[3]), d.h[4]), d.h[5]), d.h[6]), d.h[7]), d.h[8]) \o d.x,
                 d.len),
     err |-> "nil"]

sha256_MarshalBinary(d) ==
    LET b0 == IF d.is224 THEN sha256_magic224 ELSE sha256_magic256
        b1 == sha256_appendUint32(b0, d.h[1])
        b2 == sha256_appendUint32(b1, d.h[2])
        b3 == sha256_appendUint32(b2, d.h[3])
        b4 == sha256_appendUint32(b3, d.h[4])
        b5 == sha256_appendUint32(b4, d.h[5])
        b6 == sha256_appendUint32(b5, d.h[6])
        b7 == sha256_appendUint32(b6, d.h[7])
        b8 == sha256_appendUint32(b7, d.h[8])
        b9 == b8 \o Slice(d.x, 0, d.nx)
        b10 == b9 \o Zeros(Len(d.x) - d.nx)
        b11 == sha256_appendUint64(b10, d.len)
    IN  [b |-> b11, err |-> "nil"]

\* Variant of sha256_UnmarshalBinary that leaves the fill length as it was.
sha256_UnmarshalBinary_keepNx(d, b) ==
    IF \/ Len(b) < Len(sha256_magic224)
       \/ (d.is224 /\ Slice(b, 0, Len(sha256_magic224)) # sha256_magic224)
       \/ (~d.is224 /\ Slice(b, 0, Len(sha256_magic256)) # sha256_magic256)
    THEN [d |-> d, err |-> sha256_errIdentifier]
    ELSE IF Len(b) # sha256_marshaledSize
    THEN [d |-> d, err |-> sha256_errSize]
    ELSE [d |-> [d EXCEPT !.h = <<BigEndian_Uint32(Slice(b, 4, 8)), BigEndian_Uint32(Slice(b, 8, 12)),
                                  BigEndian_Uint32(Slice(b, 12, 16)), BigEndian_Uint32(Slice(b, 16, 20)),
                                  BigEndian_Uint32(Slice(b, 20, 24)), BigEndian_Uint32(Slice(b, 24, 28)),
                                  BigEndian_Uint32(Slice(b, 28, 32)), BigEndian_Uint32(Slice(b, 32, 36))>>,
                          !.x = Slice(b, 36, 100),
                          !.len = BigEndian_Uint64(Slice(b, 100, 108))],
          err |-> "nil"]

\* Variant of sha256_UnmarshalBinary that returns the identifier error for a
\* blob of the wrong size too.
sha256_UnmarshalBinary_oneError(d, b) ==
    IF \/ Len(b) < Len(sha256_magic224)
       \/ (d.is224 /\ Slice(b, 0, Len(sha256_magic224)) # sha256_magic224)
       \/ (~d.is224 /\ Slice(b, 0, Len(sha256_magic256)) # sha256_magic256)
       \/ Len(b) # sha256_marshaledSize
    THEN [d |-> d, err |-> sha256_errIdentifier]
    ELSE [d |-> [d EXCEPT !.h = [i \in 1..8 |-> BigEndian_Uint32(Slice(b, 4 * i, 4 * i + 4))],
                          !.x = Slice(b, 36, 100),
                          !.len = BigEndian_Uint64(Slice(b, 100, 108)),
                          !.nx = U64Mod64(BigEndian_Uint64(Slice(b, 100, 108)))],
          err |-> "nil"]

sha256_UnmarshalBinary(d, b) ==
    IF \/ Len(b) < Len(sha256_magic224)
       \/ (d.is224 /\ Slice(b, 0, Len(sha256_magic224)) # sha256_magic224)
       \/ (~d.is224 /\ Slice(b, 0, Len(sha256_magic256)) # sha256_magic256)
    THEN [d |-> d, err |-> sha256_errIdentifier]
    ELSE IF Len(b) # sha256_marshaledSize
    THEN [d |-> d, err |-> sha256_errSize]
    ELSE LET b0 == SliceFrom(b, Len(sha256_magic224))
             c0 == sha256_consumeUint32(b0)
             c1 == sha256_consumeUint32(c0.b)
             c2 == sha256_consumeUint32(c1.b)
             c3 == sha256_consumeUint32(c2.b)
             c4 == sha256_consumeUint32(c3.b)
             c5 == sha256_consumeUint32(c4.b)
             c6 == sha256_consumeUint32(c5.b)
             c7 == sha256_consumeUint32(c6.b)
             cx == CopyAt(d.x, 0, c7.b)
             c8 == sha256_consumeUint64(SliceFrom(c7.b, cx.n))
         IN  [d |-> [d EXCEPT !.h = <<c0.x, c1.x, c2.x, c3.x, c4.x, c5.x, c6.x, c7.x>>,
                              !.x = cx.dst,
                              !.len = c8.x,
                              !.nx = U64Mod64(c8.x)],
              err |-> "nil"]

sha256_Reset(d) ==
    [d EXCEPT !.h = IF ~d.is224
                    THEN <<sha256_init0, sha256_init1, sha256_init2, sha256_init3,
                           sha256_init4, sha256_init5, sha256_init6, sha256_init7>>
                    ELSE <<sha256_init0_224, sha256_init1_224, sha256_init2_224,
                           sha256_init3_224, sha256_init4_224, sha256_init5_224,
                           sha256_init6_224, sha256_init7_224>>,
              !.nx = 0,
              !.len = U64(0)]

sha256_New == sha256_Reset(sha256_zero)

sha256_New224 == sha256_Reset([sha256_zero EXCEPT !.is224 = TRUE])

\* block: d.h after the blocks of p.
sha256_block(d, p) == [d EXCEPT !.h = BlockFold(d.h, p, chunk, 2)]

\* Write, "if d.nx > 0": c is what copy(d.x[d.nx:], p) did.  The digest and the
\* rest of p afterwards, and the bytes handed to block.
sha256_Write_fill(d, p, c) ==
    IF d.nx + c.n = chunk
    THEN [d      |-> [sha256_block([d EXCEPT !.x = c.dst, !.nx = d.nx + c.n], c.dst)
                        EXCEPT !.nx = 0],
          p      |-> SliceFrom(p, c.n),
          hashed |-> c.dst]
    ELSE [d      |-> [d EXCEPT !.x = c.dst, !.nx = d.nx + c.n],
          p      |-> SliceFrom(p, c.n),
          hashed |-> <<>>]

\* Write, "if len(p) >= chunk", with n the length of the whole blocks of p.
sha256_Write_blocks(st, n) ==
    [d      |-> sha256_block(st.d, Slice(st.p, 0, n)),
     p      |-> SliceFrom(st.p, n),
     hashed |-> st.hashed \o Slice(st.p, 0, n)]

\* Write, "if len(p) > 0": c is what copy(d.x[:], p) did.
sha256_Write_tail(st, c) == [st EXCEPT !.d.x = c.dst, !.d.nx = c.n]

sha256_Write_3(st) ==
    IF Len(st.p) > 0 THEN sha256_Write_tail(st, CopyAt(st.d.x, 0, st.p)) ELSE st

sha256_Write_2(st) ==
    sha256_Write_3(IF Len(st.p) >= chunk
                  THEN sha256_Write_blocks(st, AndNot(Len(st.p), chunk - 1))
                  ELSE st)

sha256_Write_1(d, p) ==
    sha256_Write_2(IF d.nx > 0
                  THEN sha256_Write_fill(d, p, CopyAt(d.x, d.nx, p))
                  ELSE [d |-> d, p |-> p, hashed |-> <<>>])

\* What Write leaves and returns, st being the digest and the bytes handed to
\* block when it returns.
sha256_Write_ret(st, nn) == [d |-> st.d, nn |-> nn, err |-> "nil", hashed |-> st.hashed]

\* The digest afterwards, the count returned, the error returned, and the
\* bytes handed to block, in order.
sha256_Write(d, p) ==
    sha256_Write_ret(sha256_Write_1([d EXCEPT !.len = U64Add(d.len, Len(p))], p), Len(p))

\* Variant of sha256_padding_tmp that compares m with 56 by <=.
sha256_padding_tmp_le(len, m, tmp) ==
    <<IF m <= 56 THEN Slice(tmp, 0, 56 - m) ELSE Slice(tmp, 0, 64 + 56 - m),
      Slice(CopyAt(tmp, 0, BigEndian_PutUint64(U64Shl3(len))).dst, 0, 8)>>

\* checkSum: the slices it hands to Write, m being len % 64 and tmp the
\* array after tmp[0] = 0x80.
sha256_padding_tmp(len, m, tmp) ==
    <<IF m < 56 THEN Slice(tmp, 0, 56 - m) ELSE Slice(tmp, 0, 64 + 56 - m),
      Slice(CopyAt(tmp, 0, BigEndian_PutUint64(U64Shl3(len))).dst, 0, 8)>>

\* The slices checkSum hands to Write, in order.
sha256_padding(len) ==
    sha256_padding_tmp(len, U64Mod64(len), CopyAt(Zeros(64), 0, <<128>>).dst)

\* checkSum after its Writes returned w1 and w2.
sha256_checkSum_ret(w1, w2) ==
    [d      |-> w2.d,
     panic  |-> w2.d.nx # 0,
     digest |-> BigEndian_PutUint32(w2.d.h[1]) \o BigEndian_PutUint32(w2.d.h[2])
                \o BigEndian_PutUint32(w2.d.h[3]) \o BigEndian_PutUint32(w2.d.h[4])
                \o BigEndian_PutUint32(w2.d.h[5]) \o BigEndian_PutUint32(w2.d.h[6])
                \o BigEndian_PutUint32(w2.d.h[7])
                \o (IF ~w2.d.is224 THEN BigEndian_PutUint32(w2.d.h[8]) ELSE Zeros(4)),
     hashed |-> w1.hashed \o w2.hashed]

\* checkSum after its first Write returned w1; pd are the slices it writes.
sha256_checkSum_2(w1, pd) == sha256_checkSum_ret(w1, sha256_Write(w1.d, pd[2]))

sha256_checkSum_1(d, pd) == sha256_checkSum_2(sha256_Write(d, pd[1]), pd)

\* The receiver afterwards, whether the d.nx != 0 panic fired, the checksum,
\* and the bytes handed to block.
sha256_checkSum(d) == sha256_checkSum_1(d, sha256_padding(d.len))

\* Sum once checkSum on the copy d0 returned hash.
sha256_Sum_ret(d, in, hash) ==
    [d |-> d, d0 |-> hash.d, panic |-> hash.panic,
     out |-> IF hash.d.is224 THEN in \o Slice(hash.digest, 0, sha256_Size224)
                             ELSE in \o hash.digest,
     hashed |-> hash.hashed]

\* The receiver afterwards, the private copy afterwards, and the result.
sha256_Sum(d, in) == sha256_Sum_ret(d, in, sha256_checkSum(d))

\* ------------------------------------------------------------------------
\* hash.Hash: the calls on an instance of either package
\* ------------------------------------------------------------------------

Hash_Write(k, d, p) == IF k = "md5" THEN md5_Write(d, p) ELSE sha256_Write(d, p)

Hash_Sum(k, d, in) == IF k = "md5" THEN md5_Sum(d, in) ELSE sha256_Sum(d, in)

Hash_Reset(k, d) == IF k = "md5" THEN md5_Reset(d) ELSE sha256_Reset(d)

Hash_MarshalBinary(k, d) ==
    IF k = "md5" THEN md5_MarshalBinary(d) ELSE sha256_MarshalBinary(d)

Hash_UnmarshalBinary(k, d, b) ==
    IF k = "md5" THEN md5_UnmarshalBinary(d, b) ELSE sha256_UnmarshalBinary(d, b)

\* The constructors: md5.New, sha256.New, sha256.New224.
Constructors ==
    {[pkg |-> "md5", d |-> md5_New],
     [pkg |-> "sha256", d |-> sha256_New],
     [pkg |-> "sha256", d |-> sha256_New224]}

\* A fresh instance of the algorithm and variant of d.
Fresh(k, d) ==
    IF k = "md5" THEN md5_New
    ELSE IF d.is224 THEN sha256_New224 ELSE sha256_New

\* The state vector of an instance of either package.
Vec(k, d) == IF k = "md5" THEN d.s ELSE d.h

\* ------------------------------------------------------------------------
\* The caller
\* ------------------------------------------------------------------------

\* The bytes the caller writes: byte i of its input stream.  Consecutive
\* bytes differ, and 0x80 and 0x00 occur.
Stream(i) == (i * 131 + 253) % 256

\* The n bytes of the stream after the first pos.
Input(pos, n) == [j \in 1..n |-> Stream(pos + j)]

\* The sizes of one write.
Lens == {0, 8, 55, 56, 64, 184}

\* The slice Sum appends to.
SumPrefixes == {<<171>>}

\* Byte counts an imported blob may claim: 2^61 + 55 and 2^64 - 8.
BigLens == {<<8192, 0, 0, 55>>, <<65535, 65535, 65535, 65528>>}

\* Byte counts next to 0 and next to 2^64.
PadLens ==
    {U64(n) : n \in 0..MaxPadLen} \cup {U64Sub(U64(0), U64(n)) : n \in 1..MaxPadLen}

\* A checkpoint the caller kept of an instance of the algorithm and variant
\* of d that had absorbed the first 8 bytes of the stream.
Checkpoint(k, d) == Hash_MarshalBinary(k, Hash_Write(k, Fresh(k, d), Input(0, 8)).d).b

\* Blob b with its byte count replaced by l.
WithLen(b, l) == Slice(b, 0, Len(b) - 8) \o BigEndian_PutUint64(l)

\* Blobs of the other algorithms and variants.
Foreign(k, d) ==
    IF k = "md5" THEN {sha256_MarshalBinary(sha256_New).b}
    ELSE IF d.is224 THEN {sha256_MarshalBinary(sha256_New).b}
    ELSE {sha256_MarshalBinary(sha256_New224).b, md5_MarshalBinary(md5_New).b}

\* The blobs the caller hands to UnmarshalBinary of instance (k, d), b being a
\* blob of its algorithm and variant: b itself; b cut by one byte, cut to
\* three bytes, extended by 28 bytes, with a corrupted tag, or claiming
\* another byte count; and the blobs of other algorithms and variants.
ImportInputs(k, d, b) ==
    {b, Slice(b, 0, Len(b) - 1), Slice(b, 0, 3), b \o Zeros(28), [b EXCEPT ![4] = 9]}
    \cup {WithLen(b, l) : l \in BigLens}
    \cup Foreign(k, d)

VARIABLES
    pkg,        \* the package of the instance: "md5" or "sha256"
    d,          \* the instance
    pos,        \* bytes of the caller's stream written so far
    origin,     \* what the instance continues from: "New", "Reset" or "Import"
    base,       \* the byte count the instance had then
    msg,        \* the bytes written since construction or the last Reset
    mark,       \* how many of them were written before the last import
    ret,        \* the last call, its argument and what it returned
    calls,      \* the calls of Write, Reset and UnmarshalBinary so far
    running,    \* the Sum calls of the concurrent callers, each with its locals
    fed         \* the bytes Write has handed to block since construction or the
                \* last Reset, in order

vars == <<pkg, d, pos, origin, base, msg, mark, ret, calls, running, fed>>

\* ret after a call that returns nothing.
NoRet ==
    [op |-> "New", arg |-> <<>>, nn |-> 0, err |-> "nil", out |-> <<>>,
     panic |-> FALSE, hashed |-> <<>>]

\* The concurrent callers of Sum.
Callers == 1..NumCallers

\* A caller that is not in Sum: its slice in, and locals not yet assigned
\* (d0 shown as dd).
Idle(t, dd) ==
    [pc |-> "idle", in |-> <<170 + t>>, d0 |-> dd, len |-> U64(0), hashed |-> <<>>,
     out |-> <<>>, panic |-> FALSE]

Init ==
    /\ \E c \in Constructors :
          pkg = c.pkg /\ d = c.d /\ running = [t \in Callers |-> Idle(t, c.d)]
    /\ pos = 0
    /\ origin = "New"
    /\ base = U64(0)
    /\ msg = <<>>
    /\ mark = 0
    /\ ret = NoRet
    /\ calls = 0
    /\ fed = <<>>

\* d.Write(p) returned w.
WriteReturns(p, w) ==
    /\ d' = w.d
    /\ ret' = [NoRet EXCEPT !.op = "Write", !.arg = p, !.nn = w.nn, !.err = w.err,
                            !.hashed = w.hashed]
    /\ msg' = msg \o p
    /\ fed' = fed \o w.hashed
    /\ pos' = pos + Len(p)
    /\ calls' = calls + 1
    /\ UNCHANGED <<pkg, origin, base, mark, running>>

Write ==
    /\ calls < MaxCalls
    /\ \E n \in Lens : WriteReturns(Input(pos, n), Hash_Write(pkg, d, Input(pos, n)))

\* d.Sum(in) returned r.
SumReturns(in, r) ==
    /\ d' = r.d
    /\ ret' = [NoRet EXCEPT !.op = "Sum", !.arg = in, !.out = r.out,
                            !.panic = r.panic, !.hashed = r.hashed]
    /\ UNCHANGED <<pkg, pos, origin, base, msg, mark, calls, running, fed>>

Sum == \E in \in SumPrefixes : SumReturns(in, Hash_Sum(pkg, d, in))

Reset ==
    /\ calls < MaxCalls
    /\ d' = Hash_Reset(pkg, d)
    /\ origin' = "Reset"
    /\ base' = U64(0)
    /\ msg' = <<>>
    /\ mark' = 0
    /\ ret' = [NoRet EXCEPT !.op = "Reset"]
    /\ calls' = calls + 1
    /\ fed' = <<>>
    /\ UNCHANGED <<pkg, pos, running>>

\* d.MarshalBinary() returned r.
MarshalReturns(r) ==
    /\ ret' = [NoRet EXCEPT !.op = "MarshalBinary", !.out = r.b, !.err = r.err]
    /\ UNCHANGED <<pkg, d, pos, origin, base, msg, mark, calls, running, fed>>

MarshalBinary == MarshalReturns(Hash_MarshalBinary(pkg, d))

\* d.UnmarshalBinary(b) returned r.
UnmarshalReturns(b, r) ==
    /\ d' = r.d
    /\ origin' = (IF r.err = "nil" THEN "Import" ELSE origin)
    /\ base' = (IF r.err = "nil" THEN r.d.len ELSE base)
    /\ mark' = (IF r.err = "nil" THEN Len(msg) ELSE mark)
    /\ ret' = [NoRet EXCEPT !.op = "UnmarshalBinary", !.arg = b, !.err = r.err]
    /\ calls' = calls + 1
    /\ UNCHANGED <<pkg, pos, msg, running, fed>>

\* The caller hands one of the blobs bs to UnmarshalBinary.
UnmarshalFrom(bs) ==
    /\ calls < MaxCalls
    /\ \E b \in bs : UnmarshalReturns(b, Hash_UnmarshalBinary(pkg, d, b))

\* The caller imports the blob it has just exported, or one derived from it,
\* or else one derived from its checkpoint.
UnmarshalBinary ==
    UnmarshalFrom(ImportInputs(pkg, d, IF ret.op = "MarshalBinary" THEN ret.out
                                       ELSE Checkpoint(pkg, d)))

Next == Write \/ Sum \/ Reset \/ MarshalBinary \/ UnmarshalBinary

Spec == Init /\ [][Next]_vars

\* The caller restores into a new instance a checkpoint that claims one of the
\* byte counts of PadLens, and sums: every residue of the byte count modulo the block size occurs, below
\* and across the wrap of the 64-bit count.
UnmarshalCount ==
    /\ origin = "New"
    /\ UnmarshalFrom({WithLen(Checkpoint(pkg, d), l) : l \in PadLens})

NextPad == UnmarshalCount \/ Sum

SpecPad == Init /\ [][NextPad]_vars

\* ------------------------------------------------------------------------
\* Properties
\* ------------------------------------------------------------------------

\* Instances a and b of package k agree on the state vector, the fill length,
\* the byte count and the used part of the buffer.
Equivalent(k, a, b) ==
    /\ Vec(k, a) = Vec(k, b)
    /\ a.nx = b.nx
    /\ a.len = b.len
    /\ Slice(a.x, 0, a.nx) = Slice(b.x, 0, b.nx)

\* The checksum Sum(nil) returns for instance a.
Digest(k, a) == Hash_Sum(k, a, <<>>).out

\* A new instance of the algorithm and variant of dd after the single write
\* of m.
OneWrite(k, dd, m) == Hash_Write(k, Fresh(k, dd), m).d

SameStateAndSum(k, a, b) == Equivalent(k, a, b) /\ Digest(k, a) = Digest(k, b)

\* C1: chunking invariance.  However the bytes written to a newly constructed
\* instance were split into writes, the instance has the state vector, fill
\* length, byte count and buffered tail, and returns the checksum, of a new
\* instance of the same algorithm and variant given all the bytes in one write.
C1_ChunkingInvariance ==
    origin = "New" => SameStateAndSum(pkg, d, OneWrite(pkg, d, msg))

\* C1 witness: two writes to a new instance, the second one filling the
\* buffer, handing two further blocks to block and leaving a tail.
C1_Witness ==
    /\ origin = "New"
    /\ ret.op = "Write"
    /\ Len(ret.arg) = 184
    /\ Len(msg) = 55 + 184
    /\ Len(ret.hashed) = 192
    /\ d.nx = 47

\* C2: Sum is non-destructive.  A Sum step leaves the instance as it was, and
\* a Sum after any writes, earlier Sums included, returns the checksum of a
\* new instance given the written bytes with no Sum in between.
C2_SumNonDestructive ==
    /\ [][ret'.op = "Sum" => d' = d]_vars
    /\ [](ret.op = "Sum" /\ origin = "New"
            => ret.out = ret.arg \o Digest(pkg, OneWrite(pkg, d, msg)))

\* C2 witness: Sum returned on an instance with buffered bytes and blocks
\* already compressed, and the instance is still in that state.
C2_Witness ==
    /\ ret.op = "Sum"
    /\ origin = "New"
    /\ Len(msg) > 64
    /\ d.nx > 0
    /\ Equivalent(pkg, d, OneWrite(pkg, d, msg))

\* The instance UnmarshalBinary leaves when a new instance of the algorithm
\* and variant of dd is handed the blob dd exports.
Restored(k, dd) == Hash_UnmarshalBinary(k, Fresh(k, dd), Hash_MarshalBinary(k, dd).b)

\* The sizes of the writes that continue an instance and its restored copy.
ContinueLens == {0, 184}

SameAfterWrite(k, a, b, p) ==
    SameStateAndSum(k, Hash_Write(k, a, p).d, Hash_Write(k, b, p).d)

RoundTrip(k, dd, r, at) ==
    /\ r.err = "nil"
    /\ Equivalent(k, r.d, dd)
    /\ \A n \in ContinueLens : SameAfterWrite(k, dd, r.d, Input(at, n))

\* C3: export/import round trip.  In every reachable state, a new instance of
\* the same algorithm and variant accepts the blob the instance exports, has
\* then the same state vector, byte count, fill length and buffered tail, and
\* stays in agreement, checksum included, under the same further writes.
C3_ExportImportRoundTrip == RoundTrip(pkg, d, Restored(pkg, d), pos)

\* C3 witness: the instance was restored from the blob it had exported in the
\* middle of a message, with a partly filled buffer.
C3_Witness ==
    /\ ret.op = "UnmarshalBinary"
    /\ ret.err = "nil"
    /\ d.nx > 0
    /\ pos > 64
    /\ ret.arg = Hash_MarshalBinary(pkg, d).b

\* C4: buffer-fill invariant.  Between calls the fill length is the byte
\* count modulo the block size, so it is at least 0 and below the block size.
C4_BufferFillInvariant ==
    /\ d.nx = U64Mod64(d.len)
    /\ 0 <= d.nx
    /\ d.nx < 64

\* C4 witness: a write shorter than a block filled the buffer exactly; the
\* block was compressed and the fill length is 0 again.
C4_Witness ==
    /\ ret.op = "Write"
    /\ Len(ret.arg) \in 1..63
    /\ Len(ret.hashed) = 64
    /\ d.nx = 0

\* C5: finalization never panics.  In every reachable state Sum would leave
\* its private copy with fill length 0 and not panic, and no Sum has panicked.
C5_NoFinalizationPanic ==
    /\ ~Hash_Sum(pkg, d, <<>>).panic
    /\ Hash_Sum(pkg, d, <<>>).d0.nx = 0
    /\ (ret.op = "Sum" => ~ret.panic)

\* C5 witness: Sum returned on an instance restored with a byte count of
\* 2^61 or more and written to since.
C5_Witness ==
    /\ ret.op = "Sum"
    /\ ~ret.panic
    /\ origin = "Import"
    /\ d.len[1] >= 8192
    /\ Len(msg) > mark

\* The magic tag, the serialized size and the errors of instance (k, dd).
OwnMagic(k, dd) ==
    IF k = "md5" THEN md5_magic
    ELSE IF dd.is224 THEN sha256_magic224 ELSE sha256_magic256

MarshaledSize(k) == IF k = "md5" THEN md5_marshaledSize ELSE sha256_marshaledSize

ErrIdentifier(k) == IF k = "md5" THEN md5_errIdentifier ELSE sha256_errIdentifier

ErrSize(k) == IF k = "md5" THEN md5_errSize ELSE sha256_errSize

\* Blob b begins with the magic tag of instance (k, dd).
HasOwnTag(k, dd, b) == Len(b) >= 4 /\ Slice(b, 0, 4) = OwnMagic(k, dd)

\* C6 as stated: UnmarshalBinary rejects every blob whose length is not 92
\* bytes (MD5) or 136 bytes (SHA-224/256), blobs shorter than the tag
\* included, with the invalid-state-size error.
C6_AsStated ==
    ret.op = "UnmarshalBinary" /\ Len(ret.arg) # (IF pkg = "md5" THEN 92 ELSE 136)
        => ret.err = ErrSize(pkg)

\* C6 amended: the serialized length is 92 bytes for MD5 and 108 bytes for
\* SHA-224/256.  UnmarshalBinary rejects a blob of another length that begins
\* with the instance's own magic tag with the invalid-state-size error, and a
\* blob shorter than the tag, or one that begins with another tag, with the
\* invalid-state-identifier error, whatever its length; the two errors differ.
C6_WrongLengthRejected ==
    /\ MarshaledSize("md5") = 92
    /\ MarshaledSize("sha256") = 108
    /\ ErrSize(pkg) # ErrIdentifier(pkg)
    /\ ret.op = "UnmarshalBinary" =>
          /\ HasOwnTag(pkg, d, ret.arg) /\ Len(ret.arg) # MarshaledSize(pkg)
                => ret.err = ErrSize(pkg)
          /\ ~HasOwnTag(pkg, d, ret.arg) => ret.err = ErrIdentifier(pkg)

\* C6 witness: a SHA-224/256 instance rejected a blob of 136 bytes that begins
\* with its own tag with the invalid-state-size error.
C6_Witness ==
    /\ ret.op = "UnmarshalBinary"
    /\ pkg = "sha256"
    /\ Len(ret.arg) = 136
    /\ HasOwnTag(pkg, d, ret.arg)
    /\ ret.err = sha256_errSize

\* The blob a new instance of the other SHA variant exports.
OtherVariantBlob(dd) ==
    IF dd.is224 THEN sha256_MarshalBinary(sha256_New).b
    ELSE sha256_MarshalBinary(sha256_New224).b

\* C7: UnmarshalBinary rejects a blob whose four-byte magic tag is not the one
\* of the instance's own algorithm and variant with the
\* invalid-state-identifier error: a SHA-256 instance rejects a SHA-224 export
\* and a SHA-224 instance a SHA-256 export, while every instance accepts an
\* export of its own variant.
C7_WrongTagRejected ==
    /\ ret.op = "UnmarshalBinary" /\ Len(ret.arg) >= 4 /\ ~HasOwnTag(pkg, d, ret.arg)
          => ret.err = ErrIdentifier(pkg)
    /\ ret.op = "UnmarshalBinary" /\ HasOwnTag(pkg, d, ret.arg)
                                  /\ Len(ret.arg) = MarshaledSize(pkg)
          => ret.err = "nil"
    /\ pkg = "sha256"
          => sha256_UnmarshalBinary(d, OtherVariantBlob(d)).err = sha256_errIdentifier
    /\ Hash_UnmarshalBinary(pkg, d, Hash_MarshalBinary(pkg, Fresh(pkg, d)).b).err = "nil"

\* C7 witness: a SHA-256 instance rejected the export of a SHA-224 instance
\* with the invalid-state-identifier error.
C7_Witness ==
    /\ ret.op = "UnmarshalBinary"
    /\ pkg = "sha256"
    /\ ~d.is224
    /\ ret.arg = sha256_MarshalBinary(sha256_New224).b
    /\ ret.err = sha256_errIdentifier

\* The padding suffix checkSum writes after a message of len bytes: its
\* slices joined.
md5_suffix(len) == md5_padding(len)[1]

sha256_suffix(len) == sha256_padding(len)[1] \o sha256_padding(len)[2]

Suffix(k, len) == IF k = "md5" THEN md5_suffix(len) ELSE sha256_suffix(len)

\* sfx is a marker byte 0x80, then the least number of zero bytes that brings
\* m + 1 + zeros to 56 modulo 64, then 8 more bytes.
PadLayout(m, sfx) ==
    /\ Len(sfx) \in 9..72
    /\ sfx[1] = 128
    /\ \A i \in 2..(Len(sfx) - 8) : sfx[i] = 0
    /\ (m + 1 + (Len(sfx) - 9)) % 64 = 56
    /\ Len(sfx) - 9 \in 0..63
    /\ (m + Len(sfx)) % 64 = 0

\* C8: the padding appended at finalization is one byte 0x80, then k zero
\* bytes with k the least non-negative number such that len + 1 + k is 56
\* modulo 64, then an 8-byte length field; it is 9 to 72 bytes long, message
\* plus padding is a multiple of 64 bytes, and finalization compresses the
\* buffered bytes followed by exactly this suffix.
C8_PaddingLayout ==
    /\ PadLayout(U64Mod64(d.len), Suffix(pkg, d.len))
    /\ ret.op = "Sum" =>
          ret.hashed = Slice(d.x, 0, d.nx) \o Suffix(pkg, d.len)

\* C8 witness: MD5 finalized a message with 56 bytes in its last block, so
\* the suffix took 72 bytes and two blocks were compressed.
C8_Witness ==
    /\ ret.op = "Sum"
    /\ pkg = "md5"
    /\ origin = "Import"
    /\ d.nx = 56
    /\ Len(md5_suffix(d.len)) = 72
    /\ Len(ret.hashed) = 128

\* C9: MD5 and SHA-224/256 place the marker and the zero bytes by the same
\* rule, and finalization compresses exactly one more block when len mod 64
\* is below 56 and exactly two otherwise.
C9_SamePaddingRule ==
    /\ Len(md5_suffix(d.len)) = Len(sha256_suffix(d.len))
    /\ Slice(md5_suffix(d.len), 0, Len(md5_suffix(d.len)) - 8)
          = Slice(sha256_suffix(d.len), 0, Len(sha256_suffix(d.len)) - 8)
    /\ ret.op = "Sum" =>
          Len(ret.hashed) = (IF U64Mod64(d.len) < 56 THEN 1 ELSE 2) * chunk

\* C9 witness: SHA-224/256 finalized a message with 63 bytes in its last
\* block and compressed two blocks, and one with 55 bytes would take one.
C9_Witness ==
    /\ ret.op = "Sum"
    /\ pkg = "sha256"
    /\ origin = "Import"
    /\ d.nx = 63
    /\ Len(ret.hashed) = 2 * chunk
    /\ Len(sha256_suffix(U64Sub(d.len, U64(8)))) = 9

\* C10 as stated: Write returns len(p) and no error, and the byte count is
\* always the sum of the lengths of the writes since construction or the last
\* reset.
C10_AsStated ==
    /\ ret.op = "Write" => ret.nn = Len(ret.arg) /\ ret.err = "nil"
    /\ d.len = U64(Len(msg))

\* C10 amended: Write returns len(p) and no error and adds len(p) to the byte
\* count modulo 2^64, so the byte count is the count the instance had at
\* construction (zero), after the last reset (zero) or after the last
\* successful import (the imported count), whichever came last, plus the
\* lengths of the writes since then, modulo 2^64.
C10_WriteAdvancesLen ==
    /\ ret.op = "Write" => ret.nn = Len(ret.arg) /\ ret.err = "nil"
    /\ d.len = U64Add(base, Len(msg) - mark)
    /\ origin # "Import" => base = U64(0) /\ mark = 0

\* C10 witness: a write of 184 bytes after the import of a byte count of
\* 2^64 - 8 wrapped the count around to 176.
C10_Witness ==
    /\ ret.op = "Write"
    /\ origin = "Import"
    /\ base = <<65535, 65535, 65535, 65528>>
    /\ ret.nn = 184
    /\ d.len = U64(176)

\* The sizes of the write that follows a Reset.
AfterResetLens == {0, 8}

\* Reset on dd gave r: r has the initial state vector of dd's algorithm and
\* variant, fill length 0 and byte count 0, keeps the variant, and after the
\* write of the n bytes of the stream at at agrees, checksum included, with
\* a new instance of that variant after the same write.
ResetsToFresh(k, dd, r, at) ==
    /\ Vec(k, r) = Vec(k, Fresh(k, dd))
    /\ r.nx = 0
    /\ r.len = U64(0)
    /\ k = "sha256" => r.is224 = dd.is224
    /\ \A n \in AfterResetLens :
          SameStateAndSum(k, Hash_Write(k, r, Input(at, n)).d,
                             OneWrite(k, dd, Input(at, n)))

\* C11: Reset from any reachable state, whatever writes, sums and imports
\* came before, sets the state vector to the initial constants of the
\* instance's own algorithm and variant (keeping the SHA-224/256 variant),
\* the fill length to 0 and the byte count to 0, so writes followed by Sum
\* after Reset give what they give on a new instance of that variant.
C11_ResetRestoresInitial ==
    /\ ResetsToFresh(pkg, d, Hash_Reset(pkg, d), pos)
    /\ origin = "Reset" => SameStateAndSum(pkg, d, OneWrite(pkg, d, msg))

\* C11 witness: Reset returned on an instance whose buffer still holds bytes
\* of an earlier write.
C11_Witness ==
    /\ ret.op = "Reset"
    /\ origin = "Reset"
    /\ pos > 0
    /\ d.x # Zeros(64)
    /\ d.nx = 0
    /\ d.len = U64(0)

\* The offset of the buffer field in a blob: after the tag and the state
\* vector.
BufferOffset(k) == IF k = "md5" THEN 4 + 4 * 4 ELSE 4 + 8 * 4

\* Blob b of size bytes holds, for instance dd, the buffered bytes followed
\* by zero bytes up to the block size, and ends with the byte count
\* big-endian.
ExportLayout(k, dd, b, size) ==
    /\ Len(b) = size
    /\ Slice(b, BufferOffset(k), BufferOffset(k) + dd.nx) = Slice(dd.x, 0, dd.nx)
    /\ \A i \in (BufferOffset(k) + dd.nx + 1)..(BufferOffset(k) + 64) : b[i] = 0
    /\ BufferOffset(k) + 64 + 8 = Len(b)
    /\ BigEndian_Uint64(SliceFrom(b, Len(b) - 8)) = dd.len

\* C12 as stated: in every reachable state MarshalBinary returns a blob of 92
\* bytes (MD5) or 136 bytes (SHA-224/256) whose buffer field is the buffered
\* bytes followed by zeros and which ends with the byte count big-endian.
C12_AsStated ==
    ExportLayout(pkg, d, Hash_MarshalBinary(pkg, d).b, IF pkg = "md5" THEN 92 ELSE 136)

\* C12 amended: in every reachable state MarshalBinary returns, without error,
\* a blob of 92 bytes (MD5) or 108 bytes (SHA-224/256) whose 64-byte buffer
\* field is the buffered bytes followed by zeros in every position from the
\* fill length on, stale bytes in the live buffer notwithstanding, and which
\* ends with the byte count as an 8-byte big-endian integer.
C12_ExportFormat ==
    /\ ExportLayout(pkg, d, Hash_MarshalBinary(pkg, d).b, IF pkg = "md5" THEN 92 ELSE 108)
    /\ Hash_MarshalBinary(pkg, d).err = "nil"
    /\ ret.op = "MarshalBinary" => ret.out = Hash_MarshalBinary(pkg, d).b /\ ret.err = "nil"

\* C12 witness: MarshalBinary returned 108 bytes on a SHA-224/256 instance
\* whose buffer is partly filled and holds stale bytes of an earlier block
\* beyond the fill length.
C12_Witness ==
    /\ ret.op = "MarshalBinary"
    /\ pkg = "sha256"
    /\ Len(ret.out) = 108
    /\ d.nx > 0
    /\ \E i \in (d.nx + 1)..64 : d.x[i] # 0

\* Write of the empty slice on dd returned w: it returned 0 and no error,
\* handed nothing to block and left dd as it was.
EmptyWriteIsNoOp(k, dd, w) ==
    /\ w.nn = 0
    /\ w.err = "nil"
    /\ w.hashed = <<>>
    /\ Equivalent(k, w.d, dd)
    /\ w.d = dd

\* C13: a zero-length write is a no-op.  In every reachable state, with an
\* empty or a partly filled buffer, Write of an empty slice returns 0, leaves
\* state vector, buffered bytes, fill length and byte count unchanged and
\* compresses no block.
C13_EmptyWriteNoOp ==
    /\ EmptyWriteIsNoOp(pkg, d, Hash_Write(pkg, d, <<>>))
    /\ ret.op = "Write" /\ ret.arg = <<>> => ret.nn = 0 /\ ret.hashed = <<>>

\* C13 witness: Write of an empty slice returned 0 on an instance with a
\* partly filled buffer.
C13_Witness ==
    /\ ret.op = "Write"
    /\ ret.arg = <<>>
    /\ ret.nn = 0
    /\ d.nx > 0
    /\ Len(msg) > 0

\* ------------------------------------------------------------------------
\* Sum, statement by statement, called by several callers at once
\* ------------------------------------------------------------------------

\* Sum, "d0 := *d" and checkSum's "len := d.len": the caller's locals once the
\* receiver dd has been copied.
Sum_copy(c, dd) == [c EXCEPT !.pc = "copied", !.d0 = dd, !.len = dd.len]

\* Variant of Sum_checkSum_Write where checkSum runs on the receiver of Sum
\* and not on a copy.
Sum_checkSum_Write_shared(k, dd, c, p, w) ==
    [d |-> w.d, c |-> [c EXCEPT !.d0 = w.d, !.hashed = c.hashed \o w.hashed]]

\* A Write of p inside d0.checkSum(): the receiver dd of Sum and the caller's
\* locals afterwards.  The Write goes to the copy.
Sum_checkSum_Write(k, dd, c, p, w) ==
    [d |-> dd, c |-> [c EXCEPT !.d0 = w.d, !.hashed = c.hashed \o w.hashed]]

\* The slices checkSum writes, from the byte count it read first.
Sum_padding(k, len) == IF k = "md5" THEN md5_padding(len) ELSE sha256_padding(len)

\* checkSum from its panic check on, then Sum's append(in, hash...), for the
\* copy d0 and the bytes hashed that are in the caller's locals c.
Sum_finish(k, dd, c) ==
    IF k = "md5"
    THEN md5_Sum_ret(dd, c.in, md5_checkSum_ret([d |-> c.d0, hashed |-> c.hashed]))
    ELSE sha256_Sum_ret(dd, c.in, sha256_checkSum_ret([d |-> c.d0, hashed |-> c.hashed],
                                                      [d |-> c.d0, hashed |-> <<>>]))

AllIdle == \A t \in Callers : running[t].pc = "idle"

\* The one write before the callers start: no Write runs while a Sum does.
WriteBefore == calls = 0 /\ AllIdle /\ Write

\* Caller t enters Sum and copies the receiver.
SumCopy(t) ==
    /\ running[t].pc = "idle"
    /\ running' = [running EXCEPT ![t] = Sum_copy(running[t], d)]
    /\ UNCHANGED <<pkg, d, pos, origin, base, msg, mark, ret, calls, fed>>

\* Caller t, in checkSum, wrote slice i of the padding: r is the receiver and
\* its locals afterwards.
SumWrote(t, r, last) ==
    /\ d' = r.d
    /\ running' = [running EXCEPT ![t] = [r.c EXCEPT !.pc = IF last THEN "written"
                                                           ELSE "padded"]]
    /\ UNCHANGED <<pkg, pos, origin, base, msg, mark, ret, calls, fed>>

SumWrite(t, i, pd) ==
    SumWrote(t, Sum_checkSum_Write(pkg, d, running[t], pd[i],
                                   Hash_Write(pkg, running[t].d0, pd[i])),
             i = Len(pd))

\* Caller t writes the marker and the zero bytes (MD5: the length too).
SumPad(t) ==
    /\ running[t].pc = "copied"
    /\ SumWrite(t, 1, Sum_padding(pkg, running[t].len))

\* Caller t of SHA-224/256 writes the length field.
SumLength(t) ==
    /\ running[t].pc = "padded"
    /\ SumWrite(t, 2, Sum_padding(pkg, running[t].len))

\* Caller t's Sum checked d0.nx, formed the checksum and returned r.
SumReturned(t, r) ==
    /\ d' = r.d
    /\ running' = [running EXCEPT ![t].pc = "done", ![t].d0 = r.d0,
                                  ![t].out = r.out, ![t].panic = r.panic]
    /\ UNCHANGED <<pkg, pos, origin, base, msg, mark, ret, calls, fed>>

SumFinish(t) ==
    /\ running[t].pc = "written"
    /\ SumReturned(t, Sum_finish(pkg, d, running[t]))

NextSum ==
    \/ WriteBefore
    \/ \E t \in Callers : SumCopy(t)
    \/ \E t \in Callers : SumPad(t)
    \/ \E t \in Callers : SumLength(t)
    \/ \E t \in Callers : SumFinish(t)

SpecSum == Init /\ [][NextSum]_vars

\* C14: concurrent Sum calls need only read access.  While Sum calls on one
\* instance interleave statement by statement, and no Write, Reset or
\* UnmarshalBinary runs, no step of a Sum changes the instance, each call
\* pads its own copy, and each returns, without panic, what Sum returns when
\* run alone.
C14_ConcurrentSums ==
    /\ [][running' # running => d' = d]_vars
    /\ [](\A t \in Callers :
            /\ running[t].pc = "done" =>
                  /\ ~running[t].panic
                  /\ running[t].out = Hash_Sum(pkg, d, running[t].in).out
                  /\ running[t].hashed = Hash_Sum(pkg, d, running[t].in).hashed
            /\ running[t].pc \in {"copied", "padded", "written"} =>
                  running[t].len = d.len)

\* C14 witness: one caller's Sum has returned while another, which copied the
\* instance before, has written its padding and not yet finished; the
\* instance has a partly filled buffer.
C14_Witness ==
    /\ d.nx > 0
    /\ \E t, u \in Callers :
          /\ running[t].pc = "done"
          /\ running[t].out = Hash_Sum(pkg, d, running[t].in).out
          /\ running[u].pc = "written"
          /\ running[u].d0.nx = 0

\* The eight bytes of byte count len, most significant first.
LenBytes(len) ==
    <<len[1] \div 256, len[1] % 256, len[2] \div 256, len[2] % 256,
      len[3] \div 256, len[3] % 256, len[4] \div 256, len[4] % 256>>

\* The eight bytes, most significant first, of eight times the number whose
\* bytes are lb, modulo 2^64.
TimesEight(lb) ==
    [i \in 1..8 |-> ((lb[i] * 8) % 256) + (IF i < 8 THEN lb[i + 1] \div 32 ELSE 0)]

Reverse(s) == [i \in 1..Len(s) |-> s[Len(s) + 1 - i]]

\* The length field for a message of len bytes: its length in bits modulo
\* 2^64, least significant byte first for MD5 and most significant byte first
\* for SHA-224/256.
BitLengthField(k, len) ==
    IF k = "md5" THEN Reverse(TimesEight(LenBytes(len))) ELSE TimesEight(LenBytes(len))

Hash_block(k, dd, p) == IF k = "md5" THEN md5_block(dd, p) ELSE sha256_block(dd, p)

\* The reference Write: every byte of p is copied into the buffer, and the
\* buffer is compressed whenever it is full.  st holds the instance and the
\* bytes handed to block so far; c is what copying the next bytes of p into
\* the free part of the buffer did.
RECURSIVE CopyThenCompress(_, _, _)
CopyThenCompress_step(k, st, p, c) ==
    CopyThenCompress(k,
        IF st.d.nx + c.n = 64
        THEN [d      |-> [Hash_block(k, [st.d EXCEPT !.x = c.dst], c.dst)
                             EXCEPT !.x = c.dst, !.nx = 0],
              hashed |-> st.hashed \o c.dst]
        ELSE [d      |-> [st.d EXCEPT !.x = c.dst, !.nx = st.d.nx + c.n],
              hashed |-> st.hashed],
        SliceFrom(p, c.n))

CopyThenCompress(k, st, p) ==
    IF p = <<>> THEN st
    ELSE CopyThenCompress_step(k, st, p, CopyAt(st.d.x, st.d.nx, p))

\* The reference on a new instance of the algorithm and variant of dd, given
\* the message m.
Reference(k, dd, m) ==
    CopyThenCompress(k, [d |-> [Fresh(k, dd) EXCEPT !.len = U64(Len(m))], hashed |-> <<>>], m)

\* The whole blocks of m, and what follows them.
WholeBlocks(m) == Slice(m, 0, 64 * (Len(m) \div 64))

Remainder(m) == SliceFrom(m, 64 * (Len(m) \div 64))

\* Instance dd has handed f to block and agrees with what the reference r
\* did with message m.
SameBlockStream(k, dd, f, m, r) ==
    /\ f = WholeBlocks(m)
    /\ Len(f) = 64 * (Len(m) \div 64)
    /\ Slice(dd.x, 0, dd.nx) = Remainder(m)
    /\ dd.nx = Len(m) % 64
    /\ f = r.hashed
    /\ Equivalent(k, dd, r.d)

\* C16: block stream equivalence.  After any writes since construction or the
\* last Reset, the bytes handed to block are the consecutive whole 64-byte
\* blocks of the concatenation of the bytes written, each once and in order,
\* the buffer holds the tail that remains, and the instance and its block
\* stream are those of the reference that copies every byte into the buffer
\* and compresses whenever the buffer fills.
C16_BlockStream ==
    origin # "Import" => SameBlockStream(pkg, d, fed, msg, Reference(pkg, d, msg))

\* C16 witness: a write completed a buffered partial block and then handed
\* two more blocks to block straight from its argument, leaving a tail.
C16_Witness ==
    /\ origin # "Import"
    /\ ret.op = "Write"
    /\ Len(ret.arg) = 184
    /\ Len(msg) = 55 + 184
    /\ Len(fed) = 192
    /\ Len(ret.hashed) = 192
    /\ d.nx = 47
    /\ fed = Reference(pkg, d, msg).hashed

\* C17: MD5's pad = (55 - len) % 64, computed with a 64-bit unsigned
\* subtraction that wraps when len > 55, is the mathematical (55 - len) mod 64
\* for every byte count: it lies in 0..63, 1 + pad + 8 does not exceed the 72
\* bytes of tmp, and len + 1 + pad is 56 modulo 64.
C17_Md5PadWraparound ==
    /\ md5_pad(d.len) = (55 - U64Mod64(d.len)) % 64
    /\ d.len[1] = 0 /\ d.len[2] = 0 /\ d.len[3] = 0 /\ d.len[4] > 55
          => U64Sub(U64(55), d.len) = <<65535, 65535, 65535, Limb + 55 - d.len[4]>>
    /\ md5_pad(d.len) \in 0..63
    /\ 1 + md5_pad(d.len) + 8 <= 1 + 63 + 8
    /\ Len(md5_suffix(d.len)) = 1 + md5_pad(d.len) + 8
    /\ (U64Mod64(d.len) + 1 + md5_pad(d.len)) % 64 = 56
    /\ pkg = "md5" /\ ret.op = "Sum" =>
          Len(ret.hashed) = d.nx + 1 + md5_pad(d.len) + 8

\* C17 witness: MD5 summed a message of 64 bytes; 55 - 64 wrapped to 2^64 - 9,
\* pad is 55 and one block was compressed.
C17_Witness ==
    /\ pkg = "md5"
    /\ ret.op = "Sum"
    /\ d.len = U64(64)
    /\ U64Sub(U64(55), d.len) = <<65535, 65535, 65535, 65527>>
    /\ md5_pad(d.len) = 55
    /\ Len(ret.hashed) = 64

\* UnmarshalBinary on dd returned r: if it returned an error, it left dd as it
\* was.
FailedImportKeeps(dd, r) == r.err # "nil" => r.d = dd

\* C18: a failed import leaves the instance unchanged.  Whenever
\* UnmarshalBinary returns the identifier error or the size error, state
\* vector, buffer, fill length, byte count and variant are what they were
\* before the call, so later writes and sums go on as if it had not been
\* called.
C18_FailedImportUnchanged ==
    /\ \A b \in ImportInputs(pkg, d, Checkpoint(pkg, d)) :
          FailedImportKeeps(d, Hash_UnmarshalBinary(pkg, d, b))
    /\ ret.op = "UnmarshalBinary" /\ ret.err # "nil" /\ origin # "Import"
          => SameBlockStream(pkg, d, fed, msg, Reference(pkg, d, msg))

\* C18 witness: UnmarshalBinary returned the size error on an instance in the
\* middle of a message, which still has the state its writes gave it.
C18_Witness ==
    /\ ret.op = "UnmarshalBinary"
    /\ ret.err = ErrSize(pkg)
    /\ origin = "New"
    /\ d.nx > 0
    /\ Len(msg) > 64
    /\ Equivalent(pkg, d, OneWrite(pkg, d, msg))

\* The byte count a blob of the right size claims.
BlobLen(b) == BigEndian_Uint64(SliceFrom(b, Len(b) - 8))

\* UnmarshalBinary of b returned r on dd and f on a new instance of the same
\* algorithm and variant: both accept b or both reject it, and if they accept
\* it they are the same afterwards, with the byte count of b and the fill
\* length derived from it.
ImportReplaces(k, r, f, b) ==
    /\ r.err = f.err
    /\ r.err = "nil" =>
          /\ Equivalent(k, r.d, f.d)
          /\ r.d = f.d
          /\ r.d.len = BlobLen(b)
          /\ r.d.nx = BlobLen(b)[4] % 64
          /\ Slice(r.d.x, 0, r.d.nx) = Slice(b, BufferOffset(k), BufferOffset(k) + r.d.nx)

\* C19: a successful import replaces the prior state altogether.  Importing a
\* valid blob into an instance in any reachable state gives the state vector,
\* byte count, fill length and buffered bytes, and so the results of all
\* later writes and sums, that importing it into a new instance of the same
\* variant gives; the fill length is the blob's byte count modulo 64, and
\* nothing of the earlier message remains.
C19_ImportReplacesState ==
    /\ \A b \in ImportInputs(pkg, d, Checkpoint(pkg, d)) :
          ImportReplaces(pkg, Hash_UnmarshalBinary(pkg, d, b),
                              Hash_UnmarshalBinary(pkg, Fresh(pkg, d), b), b)
    /\ ret.op = "UnmarshalBinary" /\ ret.err = "nil" =>
          /\ d = Hash_UnmarshalBinary(pkg, Fresh(pkg, d), ret.arg).d
          /\ SameAfterWrite(pkg, d, Hash_UnmarshalBinary(pkg, Fresh(pkg, d), ret.arg).d,
                            Input(pos, 8))

\* C19 witness: an instance with 55 bytes of a message in its buffer imported
\* a checkpoint of 8 bytes and now is what a new instance that imported the
\* checkpoint is.
C19_Witness ==
    /\ ret.op = "UnmarshalBinary"
    /\ ret.err = "nil"
    /\ mark = 55
    /\ d.nx = 8
    /\ d.len = U64(8)
    /\ d = Hash_UnmarshalBinary(pkg, Fresh(pkg, d), ret.arg).d

\* C20: export is canonical.  An instance that has absorbed a byte sequence
\* since construction or its last Reset exports the blob, byte for byte, that
\* a new instance of the same algorithm and variant exports after absorbing
\* the sequence in one write, however the bytes were split across writes,
\* whatever Sum calls came between and whatever was written before the Reset;
\* so any two such instances export identical blobs.
C20_ExportCanonical ==
    /\ origin # "Import" =>
          Hash_MarshalBinary(pkg, d).b = Hash_MarshalBinary(pkg, OneWrite(pkg, d, msg)).b
    /\ ret.op = "MarshalBinary" /\ origin # "Import" =>
          ret.out = Hash_MarshalBinary(pkg, OneWrite(pkg, d, msg)).b

\* C20 witness: an instance whose buffer differs, beyond the fill length, from
\* that of a new instance given the same bytes in one write has exported the
\* same blob.
C20_Witness ==
    /\ ret.op = "MarshalBinary"
    /\ origin = "New"
    /\ d.nx > 0
    /\ d.x # OneWrite(pkg, d, msg).x
    /\ ret.out = Hash_MarshalBinary(pkg, OneWrite(pkg, d, msg)).b

============================================================================
